---- MODULE Spec2Model ----
(***************************************************************************)
(* Contest scoring engine of the judge site: the default contest format    *)
(* (judge/contest_format/default.py), the shared classification helper     *)
(* (judge/contest_format/base.py), the format registry                     *)
(* (judge/contest_format/registry.py) and the Submission row               *)
(* (judge/models.py).                                                      *)
(*                                                                         *)
(* Times are whole seconds.  The format object is taken to be bound to its *)
(* contest: self.contest.contest_problems is the set Problems, self.start  *)
(* is the contest start, and the submissions filter selects the rows of    *)
(* the participation being updated.                                        *)
(***************************************************************************)
EXTENDS Integers, Sequences, FiniteSets, TLC

\* Python None / SQL NULL of a nullable numeric column (points, null=True).
None == -1

\* Bounds of the model.
NumProblems == 2
MaxSubs == 2

\* self.start: the contest start, in seconds.
start == 1000

\* Problem.points of the contest problems (FloatField 'Points').
ProblemPoints == 10

Problems == 1..NumProblems

\* Submission.date values (auto_now_add): before, at and after the start.
Dates == {start - 5, start, start + 60, start + 120}

\* Submission.points values a grading can grant.
PointVals == {0, 4, ProblemPoints}

VARIABLES
    subs,           \* the participation's submission rows, in arrival order
    participation,  \* the persisted row: points, cumtime, format_data
    outcome,        \* how the last update_participation call ended
    calls,          \* update_participation calls since the rows last changed
    pc,             \* concurrent invocations: where each one stands
    loc,            \* concurrent invocations: the locals of each one
    changed,        \* the rows changed since the latest invocation began
    snaps,          \* the aggregate of every state the rows have been in
    bssPoints,      \* best_solution_state: the points argument
    bssTotal,       \* best_solution_state: the total argument
    bssState,       \* best_solution_state: the value returned
    formats,        \* the registry dict: format name -> format class
    lastCall,       \* the last registry call and how it ended
    submission,     \* Submission rows under grading: status, result, points
    judgeOp         \* the last grading operation and its submission

concVars == <<pc, loc, changed, snaps>>
bssVars == <<bssPoints, bssTotal, bssState>>
registryVars == <<formats, lastCall>>
gradingVars == <<submission, judgeOp>>

vars == <<subs, participation, outcome, calls, pc, loc, changed, snaps,
          bssPoints, bssTotal, bssState, formats, lastCall,
          submission, judgeOp>>

-----------------------------------------------------------------------------
(* The aggregate query of one problem: Max('submission__date'), Max('points') *)

MaxOf(xs) == CHOOSE x \in xs : \A y \in xs : y <= x

SubsOf(S, p) == {i \in DOMAIN S : S[i].problem = p}

\* A faulty variant: the date of the earliest row holding the best points.
MaxDate_of_best(S, p) ==
    IF SubsOf(S, p) = {} THEN None
    ELSE LET graded == {S[i].points : i \in SubsOf(S, p)} \ {None}
             best == {i \in SubsOf(S, p) :
                         graded # {} => S[i].points = MaxOf(graded)}
         IN  CHOOSE d \in {S[i].date : i \in best} :
                 \A e \in {S[i].date : i \in best} : d <= e

\* SQL MAX over the dates of the rows; NULL over no rows.
MaxDate(S, p) ==
    IF SubsOf(S, p) = {} THEN None
    ELSE MaxOf({S[i].date : i \in SubsOf(S, p)})

\* SQL MAX skips NULLs; NULL when every row's points is NULL (or no rows).
MaxPoints(S, p) ==
    LET graded == {S[i].points : i \in SubsOf(S, p)} \ {None}
    IN  IF graded = {} THEN None ELSE MaxOf(graded)

aggregate(S, p) == [time |-> MaxDate(S, p), points |-> MaxPoints(S, p)]

\* (result['time'] - self.start).total_seconds()
total_seconds(time) == time - start

EmptyDict == [q \in {} |-> [time |-> 0, points |-> 0]]

DictPut(d, k, v) == [q \in (DOMAIN d) \cup {k} |-> IF q = k THEN v ELSE d[q]]

\* One pass of the loop body of update_participation, for problem k.  acc
\* holds the locals cumtime, points, format_data; raised is set where
\* "points += result['points']" adds None to a number (TypeError).
problem_step(S, k, acc) ==
    LET result == aggregate(S, k) IN
    IF result.time = None THEN acc
    ELSE LET dt == total_seconds(result.time)
             cum == IF dt # 0 THEN acc.cumtime + dt ELSE acc.cumtime
             fd == DictPut(acc.format_data, k,
                           [time |-> dt, points |-> result.points])
         IN  IF result.points = None
             THEN [acc EXCEPT !.cumtime = cum, !.format_data = fd,
                              !.raised = TRUE]
             ELSE [cumtime |-> cum,
                   points |-> acc.points + result.points,
                   format_data |-> fd,
                   raised |-> FALSE]

\* The loop over self.contest.contest_problems.all(), from problem k on; an
\* exception ends it.
RECURSIVE problem_loop(_, _, _)
problem_loop(S, k, acc) ==
    IF k > NumProblems \/ acc.raised THEN acc
    ELSE problem_loop(S, k + 1, problem_step(S, k, acc))

\* cumtime = 0; points = 0; format_data = {}
Locals0 ==
    [cumtime |-> 0, points |-> 0, format_data |-> EmptyDict, raised |-> FALSE]

\* participation.cumtime/points/format_data = the locals; save()
Saved(acc) ==
    [points |-> acc.points, cumtime |-> acc.cumtime,
     format_data |-> acc.format_data]

Finish(part, r) ==
    IF r.raised
    THEN [outcome |-> "TypeError", participation |-> part]
    ELSE [outcome |-> "ok", participation |-> Saved(r)]

\* A faulty variant: the locals start from the stored aggregate.
update_participation_accumulating(part, S) ==
    Finish(part, problem_loop(S, 1,
        [cumtime |-> part.cumtime, points |-> part.points,
         format_data |-> part.format_data, raised |-> FALSE]))

\* DefaultContestFormat.update_participation: the locals start at zero, the
\* row is written and saved only when the loop ran to its end.
update_participation(part, S) ==
    Finish(part, problem_loop(S, 1, Locals0))

-----------------------------------------------------------------------------
(* Sequential behaviour: rows arrive, are graded and rejudged; the format   *)
(* recomputes the participation.                                            *)

NewParticipation == [points |-> 0, cumtime |-> 0, format_data |-> EmptyDict]

ScoringInit ==
    /\ subs = <<>>
    /\ participation = NewParticipation
    /\ outcome = "none"
    /\ calls = 0

\* Submission row on creation: date = now (auto_now_add), points NULL.
AppendRow(S, p, d) ==
    Append(S, [problem |-> p, date |-> d, points |-> None])

\* The points column of row i is written.
SetPoints(S, i, v) == [S EXCEPT ![i].points = v]

LastDate(S) == IF S = <<>> THEN start - 5 ELSE S[Len(S)].date

\* A submission is created: date is set on creation, points is NULL.
Arrive(p, d) ==
    /\ Len(subs) < MaxSubs
    /\ d >= LastDate(subs)
    /\ subs' = AppendRow(subs, p, d)
    /\ calls' = 0
    /\ UNCHANGED <<participation, outcome>>
    /\ UNCHANGED <<concVars, bssVars, registryVars, gradingVars>>

\* The judge's report grants points to an ungraded row.
Grade(i, v) ==
    /\ subs[i].points = None
    /\ subs' = SetPoints(subs, i, v)
    /\ calls' = 0
    /\ UNCHANGED <<participation, outcome>>
    /\ UNCHANGED <<concVars, bssVars, registryVars, gradingVars>>

\* A rejudge replaces the points of a graded row.
Rejudge(i, v) ==
    /\ subs[i].points # None
    /\ subs[i].points # v
    /\ subs' = SetPoints(subs, i, v)
    /\ calls' = 0
    /\ UNCHANGED <<participation, outcome>>
    /\ UNCHANGED <<concVars, bssVars, registryVars, gradingVars>>

UpdateParticipation ==
    /\ calls < 2
    /\ LET r == update_participation(participation, subs)
       IN  /\ participation' = r.participation
           /\ outcome' = r.outcome
    /\ calls' = calls + 1
    /\ UNCHANGED subs
    /\ UNCHANGED <<concVars, bssVars, registryVars, gradingVars>>

-----------------------------------------------------------------------------
(* Concurrent invocations of update_participation for one participation.    *)
(* Each aggregate query and the final save() is one database statement;     *)
(* the code takes no lock and opens no transaction around them.             *)

Workers == {1, 2}

\* The aggregate a pass over the rows S computes, when it runs to its end.
SnapOf(S) ==
    LET r == update_participation(NewParticipation, S)
    IN  IF r.outcome = "ok" THEN {r.participation} ELSE {}

ConcInit ==
    /\ pc = [w \in Workers |-> "idle"]
    /\ loc = [w \in Workers |-> [k |-> 1, acc |-> Locals0]]
    /\ changed = FALSE
    /\ snaps = {NewParticipation}

\* update_participation is entered: the locals are zeroed.
Begin(w) ==
    /\ pc[w] = "idle"
    /\ pc' = [pc EXCEPT ![w] = "loop"]
    /\ loc' = [loc EXCEPT ![w] = [k |-> 1, acc |-> Locals0]]
    /\ changed' = FALSE
    /\ UNCHANGED <<subs, participation, outcome, calls, snaps>>
    /\ UNCHANGED <<bssVars, registryVars, gradingVars>>

\* The aggregate query of the next problem, on the rows as they are now.
Query(w) ==
    /\ pc[w] = "loop"
    /\ LET a == problem_step(subs, loc[w].k, loc[w].acc)
       IN  /\ loc' = [loc EXCEPT ![w] = [k |-> loc[w].k + 1, acc |-> a]]
           /\ pc' = [pc EXCEPT ![w] =
                        IF a.raised THEN "raised"
                        ELSE IF loc[w].k = NumProblems THEN "save"
                        ELSE "loop"]
    /\ UNCHANGED <<subs, participation, outcome, calls, changed, snaps>>
    /\ UNCHANGED <<bssVars, registryVars, gradingVars>>

\* participation.save(): the three fields are written in one statement.
Save(w) ==
    /\ pc[w] = "save"
    /\ participation' = Saved(loc[w].acc)
    /\ pc' = [pc EXCEPT ![w] = "done"]
    /\ UNCHANGED <<subs, outcome, calls, loc, changed, snaps>>
    /\ UNCHANGED <<bssVars, registryVars, gradingVars>>

ConcArrive(p, d) ==
    /\ Len(subs) < MaxSubs
    /\ d >= LastDate(subs)
    /\ subs' = AppendRow(subs, p, d)
    /\ changed' = TRUE
    /\ snaps' = snaps \cup SnapOf(subs')
    /\ UNCHANGED <<participation, outcome, calls, pc, loc>>
    /\ UNCHANGED <<bssVars, registryVars, gradingVars>>

ConcGrade(i, v) ==
    /\ subs[i].points = None
    /\ subs' = SetPoints(subs, i, v)
    /\ changed' = TRUE
    /\ snaps' = snaps \cup SnapOf(subs')
    /\ UNCHANGED <<participation, outcome, calls, pc, loc>>
    /\ UNCHANGED <<bssVars, registryVars, gradingVars>>

-----------------------------------------------------------------------------
(* BaseContestFormat.best_solution_state                                    *)

\* Python truth value of a number or None.
Falsy(x) == x = None \/ x = 0

\* A faulty variant: the equality is tested before the zero test.
best_solution_state_equal_first(points, total) ==
    IF points = total THEN "full-score"
    ELSE IF Falsy(points) THEN "failed-score"
    ELSE "partial-score"

best_solution_state(points, total) ==
    IF Falsy(points) THEN "failed-score"
    ELSE IF points = total THEN "full-score"
    ELSE "partial-score"

Scores == 0..ProblemPoints

BssIdle ==
    /\ bssPoints = 0
    /\ bssTotal = 0
    /\ bssState = "unset"

BssInit ==
    /\ bssPoints \in Scores \cup {None}
    /\ bssTotal \in Scores
    /\ bssState = "unset"

Classify ==
    /\ bssState = "unset"
    /\ bssState' = best_solution_state(bssPoints, bssTotal)
    /\ UNCHANGED <<bssPoints, bssTotal>>
    /\ UNCHANGED <<subs, participation, outcome, calls>>
    /\ UNCHANGED <<concVars, registryVars, gradingVars>>

-----------------------------------------------------------------------------
(* The format registry                                                      *)

\* Format names, in the order of Python's string comparison.
NameOrder == <<"atcoder", "default", "ecoo">>

FormatNames == {NameOrder[i] : i \in DOMAIN NameOrder}

Rank(n) == CHOOSE i \in DOMAIN NameOrder : NameOrder[i] = n

\* Format classes and their name attribute.
FormatClasses == {"DefaultContestFormat", "ECOOContestFormat"}

DisplayName(cls) == IF cls = "DefaultContestFormat" THEN "Default" ELSE "ECOO"

\* formats = {}
EmptyRegistry == [n \in {} |-> ""]

\* A faulty variant: the class is stored whether or not the name is taken.
register_overwriting(F, name, cls) ==
    [formats |-> DictPut(F, name, cls),
     raised |-> IF name \in DOMAIN F THEN "AssertionError" ELSE "none"]

\* register_contest_format(name)(cls): the assert fails before the store.
register_contest_format(F, name, cls) ==
    IF name \in DOMAIN F
    THEN [formats |-> F, raised |-> "AssertionError"]
    ELSE [formats |-> DictPut(F, name, cls), raised |-> "none"]

\* The lookup of a format by name.
resolve(F, name) ==
    IF name \in DOMAIN F
    THEN [value |-> <<F[name]>>, raised |-> "none"]
    ELSE [value |-> <<>>, raised |-> "UnknownFormatError"]

\* sorted(six.iteritems(formats)): the items, ordered by key.
RECURSIVE sorted_items(_, _)
sorted_items(F, keys) ==
    IF keys = {} THEN <<>>
    ELSE LET least == CHOOSE n \in keys : \A m \in keys : Rank(n) <= Rank(m)
         IN  <<  <<least, F[least]>>  >> \o sorted_items(F, keys \ {least})

\* The list the loop of choices() builds in its local result.
choices_result(F) ==
    LET items == sorted_items(F, DOMAIN F)
    IN  [i \in DOMAIN items |-> <<items[i][1], DisplayName(items[i][2])>>]

\* choices(): the function ends without a return statement, so the call
\* evaluates to None whatever result holds.
choices(F) == [returned |-> "None", value |-> <<>>]

NoCall ==
    [op |-> "none", name |-> "", cls |-> "", before |-> EmptyRegistry,
     raised |-> "none",
     returned |-> "None", value |-> <<>>]

RegistryInit ==
    /\ formats = EmptyRegistry
    /\ lastCall = NoCall

Register(name, cls) ==
    /\ LET r == register_contest_format(formats, name, cls)
       IN  /\ formats' = r.formats
           /\ lastCall' = [op |-> "register", name |-> name, cls |-> cls,
                           before |-> formats, raised |-> r.raised,
                           returned |-> IF r.raised = "none" THEN "value"
                                        ELSE "None",
                           value |-> IF r.raised = "none" THEN <<cls>>
                                     ELSE <<>>]
    /\ UNCHANGED <<subs, participation, outcome, calls>>
    /\ UNCHANGED <<concVars, bssVars, gradingVars>>

Resolve(name) ==
    /\ LET r == resolve(formats, name)
       IN  lastCall' = [op |-> "resolve", name |-> name, cls |-> "",
                        before |-> formats, raised |-> r.raised,
                        returned |-> IF r.raised = "none" THEN "value"
                                     ELSE "None",
                        value |-> r.value]
    /\ UNCHANGED formats
    /\ UNCHANGED <<subs, participation, outcome, calls>>
    /\ UNCHANGED <<concVars, bssVars, gradingVars>>

Choices ==
    /\ LET r == choices(formats)
       IN  lastCall' = [op |-> "choices", name |-> "", cls |-> "",
                        before |-> formats, raised |-> "none",
                        returned |-> r.returned,
                        value |-> r.value]
    /\ UNCHANGED formats
    /\ UNCHANGED <<subs, participation, outcome, calls>>
    /\ UNCHANGED <<concVars, bssVars, gradingVars>>

-----------------------------------------------------------------------------
(* The Submission lifecycle                                                 *)

NumJudged == 2

SubIds == 1..NumJudged

\* Submission.STATUS
STATUS == {"QU", "C", "G", "D", "IE", "CE"}

\* A faulty variant: only Completed counts as graded.
is_graded_completed_only(s) == s.status = "D"

\* Submission.is_graded
is_graded(s) == s.status \notin {"QU", "C", "G"}

\* status default 'QU', result default None, points NULL
NewSubmission == [status |-> "QU", result |-> "None", points |-> None]

\* The dispatcher's handling of an abort request: nothing for a submission
\* that is graded, else the submission may end in the internal-error state.
abort_submission(s) ==
    IF is_graded(s) THEN {s}
    ELSE {s, [s EXCEPT !.status = "IE", !.result = "IE"]}

\* The dispatcher's handling of a judge request: the submission is queued
\* again and its earlier outcome dropped.
judge_submission(s) == NewSubmission

GradingInit ==
    /\ submission = [i \in SubIds |-> NewSubmission]
    /\ judgeOp = <<"none", 0>>

GradingFrame ==
    /\ UNCHANGED <<subs, participation, outcome, calls>>
    /\ UNCHANGED <<concVars, bssVars, registryVars>>

ReportCompiled(i) ==
    /\ submission[i].status = "QU"
    /\ submission' = [submission EXCEPT ![i].status = "C"]
    /\ judgeOp' = <<"compiled", i>>
    /\ GradingFrame

BeginGrading(i) ==
    /\ submission[i].status = "C"
    /\ submission' = [submission EXCEPT ![i].status = "G"]
    /\ judgeOp' = <<"grading", i>>
    /\ GradingFrame

ReportFinal(i, res) ==
    /\ submission[i].status \in {"C", "G"}
    /\ submission' = [submission EXCEPT ![i] =
           [status |-> "D", result |-> res,
            points |-> IF res = "AC" THEN ProblemPoints ELSE 0]]
    /\ judgeOp' = <<"final", i>>
    /\ GradingFrame

ReportCompileError(i) ==
    /\ submission[i].status \in {"QU", "C"}
    /\ submission' = [submission EXCEPT ![i] =
           [status |-> "CE", result |-> "CE", points |-> 0]]
    /\ judgeOp' = <<"compile-error", i>>
    /\ GradingFrame

ReportInternalError(i) ==
    /\ ~is_graded(submission[i])
    /\ submission' = [submission EXCEPT ![i].status = "IE", ![i].result = "IE"]
    /\ judgeOp' = <<"internal-error", i>>
    /\ GradingFrame

\* Submission.judge
Judge(i) ==
    /\ is_graded(submission[i])
    /\ submission' = [submission EXCEPT ![i] = judge_submission(submission[i])]
    /\ judgeOp' = <<"judge", i>>
    /\ GradingFrame

\* Submission.abort
Abort(i) ==
    /\ \E s \in abort_submission(submission[i]) :
           submission' = [submission EXCEPT ![i] = s]
    /\ judgeOp' = <<"abort", i>>
    /\ GradingFrame

-----------------------------------------------------------------------------
(* Specifications                                                           *)

Init == ScoringInit /\ ConcInit /\ BssIdle /\ RegistryInit /\ GradingInit

Next ==
    \/ \E p \in Problems, d \in Dates : Arrive(p, d)
    \/ \E i \in DOMAIN subs, v \in PointVals : Grade(i, v)
    \/ \E i \in DOMAIN subs, v \in PointVals : Rejudge(i, v)
    \/ UpdateParticipation

Spec == Init /\ [][Next]_vars

ConcNext ==
    \/ \E w \in Workers : Begin(w)
    \/ \E w \in Workers : Query(w)
    \/ \E w \in Workers : Save(w)
    \/ \E p \in Problems, d \in Dates : ConcArrive(p, d)
    \/ \E i \in DOMAIN subs, v \in PointVals : ConcGrade(i, v)

SpecConc == Init /\ [][ConcNext]_vars

InitBss == ScoringInit /\ ConcInit /\ BssInit /\ RegistryInit /\ GradingInit

NextBss == Classify

SpecBss == InitBss /\ [][NextBss]_vars

NextRegistry ==
    \/ \E n \in FormatNames, c \in FormatClasses : Register(n, c)
    \/ \E n \in FormatNames : Resolve(n)
    \/ Choices

SpecRegistry == Init /\ [][NextRegistry]_vars

NextGrading ==
    \/ \E i \in SubIds : ReportCompiled(i)
    \/ \E i \in SubIds : BeginGrading(i)
    \/ \E i \in SubIds, res \in {"AC", "WA"} : ReportFinal(i, res)
    \/ \E i \in SubIds : ReportCompileError(i)
    \/ \E i \in SubIds : ReportInternalError(i)
    \/ \E i \in SubIds : Judge(i)
    \/ \E i \in SubIds : Abort(i)

SpecGrading == Init /\ [][NextGrading]_vars

-----------------------------------------------------------------------------
(* Properties of the sequential behaviour                                   *)

\* The last call ran after the rows last changed.
Updated == calls >= 1

Completed == Updated /\ outcome = "ok"

\* The best points of problem p: ungraded or no submission counts zero.
BestPoints(S, p) == IF MaxPoints(S, p) = None THEN 0 ELSE MaxPoints(S, p)

RECURSIVE BestSum(_, _)
BestSum(S, k) == IF k = 0 THEN 0 ELSE BestSum(S, k - 1) + BestPoints(S, k)

Positive(x) == IF x > 0 THEN x ELSE 0

RECURSIVE PositiveTimeSum(_, _)
PositiveTimeSum(fd, k) ==
    IF k = 0 THEN 0
    ELSE PositiveTimeSum(fd, k - 1)
         + (IF k \in DOMAIN fd THEN Positive(fd[k].time) ELSE 0)

\* C1: a second update_participation call in a row, the rows unchanged in
\* between, leaves the persisted points, cumtime and format_data exactly as
\* the first call left them.
C1_Idempotent == [][calls' = 2 => participation' = participation]_vars

C1_Witness ==
    /\ calls = 2
    /\ outcome = "ok"
    /\ participation.points > 0
    /\ DOMAIN participation.format_data = Problems

\* C2: after any arrivals, gradings and rejudges followed by
\* update_participation, the stored points is the sum over the problems of
\* the best points of the current rows, and format_data[p].points is that
\* best for every problem with a graded row.
C2_Claim ==
    Updated =>
        /\ participation.points = BestSum(subs, NumProblems)
        /\ \A p \in Problems :
               MaxPoints(subs, p) # None =>
                   /\ p \in DOMAIN participation.format_data
                   /\ participation.format_data[p].points = MaxPoints(subs, p)

\* The scenario of C3: two submissions to problem 1, made 60 s and 120 s
\* after the start, the first worth the full points, the second none.
Scenario ==
    subs = << [problem |-> 1, date |-> start + 60, points |-> ProblemPoints],
              [problem |-> 1, date |-> start + 120, points |-> 0] >>

\* C3 as stated: in the scenario the record of problem 1 is {time: 65,
\* points: 10}, the points 10 and the cumtime 65.
C3_Claim ==
    (Scenario /\ Updated) =>
        /\ outcome = "ok"
        /\ 1 \in DOMAIN participation.format_data
        /\ participation.format_data[1] = [time |-> 65, points |-> 10]
        /\ participation.points = 10
        /\ participation.cumtime = 65

\* C3 amended: the time a completed update_participation records for a
\* problem is the elapsed seconds from the contest start to the latest
\* submission date among the rows of that problem; in the scenario the
\* record is {time: 120, points: 10}, the points 10 and the cumtime 120.
C3_LatestSubmissionDate ==
    Completed =>
        /\ \A p \in Problems :
               SubsOf(subs, p) # {} =>
                   /\ p \in DOMAIN participation.format_data
                   /\ participation.format_data[p].time
                          = MaxDate(subs, p) - start
        /\ Scenario =>
               /\ participation.format_data[1] = [time |-> 120, points |-> 10]
               /\ participation.points = 10
               /\ participation.cumtime = 120

C3_Witness == Scenario /\ Completed

\* C5: update_participation never raises: a problem without submissions and
\* a problem whose only submissions are ungraded contribute zero.
C5_Claim ==
    Updated =>
        /\ outcome = "ok"
        /\ participation.points = BestSum(subs, NumProblems)

\* C6: the cumulative time is never negative, and after an update it is at
\* least the sum of the positive per-problem times.
C6_Claim ==
    /\ participation.cumtime >= 0
    /\ Completed =>
           participation.cumtime
               >= PositiveTimeSum(participation.format_data, NumProblems)

-----------------------------------------------------------------------------
(* Properties of the concurrent invocations                                 *)

AllDone == \A w \in Workers : pc[w] = "done"

\* C4: once two concurrent invocations have both saved, the persisted
\* triple is the aggregate of one state the rows have been in, and when the
\* rows have not changed since the later invocation began it is the
\* aggregate of the rows as they are: no stale result has overwritten it.
C4_Claim ==
    AllDone =>
        /\ participation \in snaps
        /\ ~changed => participation \in SnapOf(subs)

-----------------------------------------------------------------------------
(* Properties of best_solution_state                                        *)

Classified == bssState # "unset"

\* C7 as stated: the tags are "failed", "full" and "partial".
C7_Claim ==
    Classified =>
        /\ bssState = (IF Falsy(bssPoints) THEN "failed"
                       ELSE IF bssPoints = bssTotal THEN "full"
                       ELSE "partial")
        /\ (bssPoints = 0 /\ bssTotal = 10) => bssState = "failed"
        /\ (bssPoints = 10 /\ bssTotal = 10) => bssState = "full"
        /\ (bssPoints = 4 /\ bssTotal = 10) => bssState = "partial"

\* C7 amended: best_solution_state returns "failed-score" whenever points is
\* zero or None (also when total is zero), "full-score" when points is
\* non-zero and equals total, and "partial-score" in every other case; so
\* (0, 10) gives "failed-score", (10, 10) "full-score", (4, 10)
\* "partial-score".
C7_Classification ==
    Classified =>
        /\ Falsy(bssPoints) => bssState = "failed-score"
        /\ (~Falsy(bssPoints) /\ bssPoints = bssTotal)
               => bssState = "full-score"
        /\ (~Falsy(bssPoints) /\ bssPoints # bssTotal)
               => bssState = "partial-score"
        /\ (bssPoints = 0 /\ bssTotal = 10) => bssState = "failed-score"
        /\ (bssPoints = 10 /\ bssTotal = 10) => bssState = "full-score"
        /\ (bssPoints = 4 /\ bssTotal = 10) => bssState = "partial-score"

C7_Witness == Classified /\ bssPoints = 0 /\ bssTotal = 0

-----------------------------------------------------------------------------
(* Properties of the registry                                               *)

DuplicateRegistration ==
    lastCall.op = "register" /\ lastCall.name \in DOMAIN lastCall.before

UnknownResolution ==
    lastCall.op = "resolve" /\ lastCall.name \notin DOMAIN lastCall.before

C10_Claim ==
    lastCall.op = "choices" =>
        /\ lastCall.returned = "value"
        /\ lastCall.value = choices_result(formats)
        /\ formats = lastCall.before

-----------------------------------------------------------------------------
(* Properties of the Submission lifecycle                                   *)

Terminal == {"D", "CE", "IE"}

====
